---- MODULE Spec2Model ----
(***************************************************************************)
(* Model of the Konlet manifest engine of                                  *)
(* lib/googlecloudsdk/api_lib/compute/containers_utils.py:                 *)
(* _CreateContainerManifest, UpdateMetadata, _UpdateMounts, _CleanupMounts, *)
(* _UpdateEnv and _ReadDictionary.                                         *)
(*                                                                         *)
(* Python dicts are functions whose DOMAIN is the set of keys present, so  *)
(* "key absent" and "key present with an empty list" are different values. *)
(* Python lists are sequences.  Texts that the code takes apart character  *)
(* by character (env-file lines, env names and values) are sequences of    *)
(* one-character strings; texts it only compares are strings.              *)
(***************************************************************************)
EXTENDS Integers, Sequences, FiniteSets, TLC

VARIABLES manifest, last, error

vars == <<manifest, last, error>>

(***************************************************************************)
(* Bounds of the model.                                                    *)
(***************************************************************************)
\* removed paths, host-path and tmpfs directives of one call, in all
MaxDirectives == 2
\* volumes of a manifest
MaxMounts == 3
\* dicts in one --container-env list
MaxContainerEnv == 2
\* keys in one --remove-container-env list
MaxRemoveEnv == 1
\* mounts of a loaded manifest
MaxLoadedMounts == 3

(***************************************************************************)
(* Python dict and list primitives.                                        *)
(***************************************************************************)
EmptyDict == [k \in {} |-> 0]

Put(d, k, v) == [x \in DOMAIN d \cup {k} |-> IF x = k THEN v ELSE d[x]]

Pop(d, k) == [x \in DOMAIN d \ {k} |-> d[x]]

Get(d, k, default) == IF k \in DOMAIN d THEN d[k] ELSE default

DictUpdate(d, e) == [x \in DOMAIN d \cup DOMAIN e |-> IF x \in DOMAIN e THEN e[x] ELSE d[x]]

InList(x, s) == \E i \in 1..Len(s) : s[i] = x

Range(s) == {s[i] : i \in 1..Len(s)}

SeqsUpTo(S, n) == UNION {[1..k -> S] : k \in 0..n}

\* the orders in which iteritems() may yield the items of a dict
Perms(S) == {p \in [1..Cardinality(S) -> S] : \A x \in S : \E i \in DOMAIN p : p[i] = x}

Digit(n) == <<"0", "1", "2", "3", "4", "5", "6", "7", "8", "9">>[n + 1]

RECURSIVE Str(_)
Str(n) == IF n < 10 THEN Digit(n) ELSE Str(n \div 10) \o Digit(n % 10)

(***************************************************************************)
(* Mount reconciliation.                                                   *)
(***************************************************************************)
READ_ONLY == "READ_ONLY"
READ_WRITE == "READ_WRITE"

isReadOnly(mode) == mode = READ_ONLY

MountPathsOf(directives) == [i \in 1..Len(directives) |-> directives[i]["mount-path"]]

\* mutant: the mount paths of the new directives are not removed
MountPathsToRemove_ExplicitOnly(remove_container_mounts, container_mount_host_path, container_mount_tmpfs) ==
  remove_container_mounts

MountPathsToRemove(remove_container_mounts, container_mount_host_path, container_mount_tmpfs) ==
  remove_container_mounts \o MountPathsOf(container_mount_host_path)
                          \o MountPathsOf(container_mount_tmpfs)

NamesOf(items) == [i \in 1..Len(items) |-> items[i].name]

UsedMounts(mounts, mount_paths_to_remove) ==
  SelectSeq(mounts, LAMBDA mount : ~InList(mount.mountPath, mount_paths_to_remove))

RemovedMounts(mounts, mount_paths_to_remove) ==
  SelectSeq(mounts, LAMBDA mount : InList(mount.mountPath, mount_paths_to_remove))

\* mutant: no volume is collected
UsedVolumes_KeepAll(volumes, used_mounts_names, removed_mount_names) == volumes

\* mutant: the two name lists are taken for each other
UsedVolumes_SwappedLists(volumes, used_mounts_names, removed_mount_names) ==
  SelectSeq(volumes, LAMBDA volume : \/ InList(volume.name, removed_mount_names)
                                     \/ ~InList(volume.name, used_mounts_names))

\* mutant: a volume that no mount referenced before the call is collected too
UsedVolumes_OnlyReferenced(volumes, used_mounts_names, removed_mount_names) ==
  SelectSeq(volumes, LAMBDA volume : InList(volume.name, used_mounts_names))

UsedVolumes(volumes, used_mounts_names, removed_mount_names) ==
  SelectSeq(volumes, LAMBDA volume : \/ InList(volume.name, used_mounts_names)
                                     \/ ~InList(volume.name, removed_mount_names))

SetContainer(m, container) ==
  [m EXCEPT !.spec = Put(m.spec, "containers", <<container>>)]

CleanupMounts(m, remove_container_mounts, container_mount_host_path, container_mount_tmpfs) ==
  LET mount_paths_to_remove == MountPathsToRemove(remove_container_mounts,
                                                  container_mount_host_path,
                                                  container_mount_tmpfs)
      mounts == Get(m.spec.containers[1], "volumeMounts", <<>>)
      used_mounts == UsedMounts(mounts, mount_paths_to_remove)
      used_mounts_names == NamesOf(used_mounts)
      removed_mount_names == NamesOf(RemovedMounts(mounts, mount_paths_to_remove))
      used_volumes == UsedVolumes(Get(m.spec, "volumes", <<>>),
                                  used_mounts_names, removed_mount_names)
      m1 == SetContainer(m, Put(m.spec.containers[1], "volumeMounts", used_mounts))
  IN  [m1 EXCEPT !.spec = Put(m1.spec, "volumes", used_volumes)]

\* mutant: names in use are not skipped, as in the builder
SkipUsed_NoSearch(next_volume_name, used_names) == next_volume_name

\* mutant: the search starts after the number of volumes in use
SkipUsed_FromCount(next_volume_name, used_names) ==
  IF next_volume_name < Len(used_names) THEN Len(used_names) ELSE next_volume_name

\* while str(next_volume_name) in used_names: next_volume_name += 1
RECURSIVE SkipUsed(_, _)
SkipUsed(next_volume_name, used_names) ==
  IF InList(Str(next_volume_name), used_names)
  THEN SkipUsed(next_volume_name + 1, used_names)
  ELSE next_volume_name

HostPathVolume(name, volume) ==
  [name |-> Str(name), hostPath |-> [path |-> volume["host-path"]]]

HostPathMount(name, volume) ==
  [name |-> Str(name), mountPath |-> volume["mount-path"],
   readOnly |-> isReadOnly(Get(volume, "mode", READ_WRITE))]

TmpfsVolume(name) == [name |-> Str(name), emptyDir |-> [medium |-> "Memory"]]

TmpfsMount(name, tmpfs) == [name |-> Str(name), mountPath |-> tmpfs["mount-path"]]

\* The two loops that give names to the new mounts.  acc carries the loop
\* state: volumes, volume_mounts and next_volume_name.
RECURSIVE AddHostPaths(_, _, _, _)
AddHostPaths(acc, container_mount_host_path, i, used_names) ==
  IF i > Len(container_mount_host_path) THEN acc
  ELSE LET name == SkipUsed(acc.next_volume_name, used_names)
           volume == container_mount_host_path[i]
       IN  AddHostPaths([volumes |-> Append(acc.volumes, HostPathVolume(name, volume)),
                         volume_mounts |-> Append(acc.volume_mounts, HostPathMount(name, volume)),
                         next_volume_name |-> name + 1],
                        container_mount_host_path, i + 1, used_names)

RECURSIVE AddTmpfs(_, _, _, _)
AddTmpfs(acc, container_mount_tmpfs, i, used_names) ==
  IF i > Len(container_mount_tmpfs) THEN acc
  ELSE LET name == SkipUsed(acc.next_volume_name, used_names)
           tmpfs == container_mount_tmpfs[i]
       IN  AddTmpfs([volumes |-> Append(acc.volumes, TmpfsVolume(name)),
                     volume_mounts |-> Append(acc.volume_mounts, TmpfsMount(name, tmpfs)),
                     next_volume_name |-> name + 1],
                    container_mount_tmpfs, i + 1, used_names)

\* mutant: the names of the tmpfs mounts start at 0 again
NewMounts_TmpfsFromZero(container_mount_host_path, container_mount_tmpfs, used_names) ==
  LET host == AddHostPaths([volumes |-> <<>>, volume_mounts |-> <<>>, next_volume_name |-> 0],
                           container_mount_host_path, 1, used_names)
  IN  AddTmpfs([host EXCEPT !.next_volume_name = 0], container_mount_tmpfs, 1, used_names)

NewMounts(container_mount_host_path, container_mount_tmpfs, used_names) ==
  AddTmpfs(AddHostPaths([volumes |-> <<>>, volume_mounts |-> <<>>, next_volume_name |-> 0],
                        container_mount_host_path, 1, used_names),
           container_mount_tmpfs, 1, used_names)

UpdateMounts(m, remove_container_mounts, container_mount_host_path, container_mount_tmpfs) ==
  LET m1 == CleanupMounts(m, remove_container_mounts, container_mount_host_path,
                          container_mount_tmpfs)
      used_names == NamesOf(m1.spec.volumes)
      new == NewMounts(container_mount_host_path, container_mount_tmpfs, used_names)
      container == m1.spec.containers[1]
      m2 == SetContainer(m1, Put(container, "volumeMounts",
                                 container.volumeMounts \o new.volume_mounts))
  IN  [m2 EXCEPT !.spec = Put(m2.spec, "volumes", m2.spec.volumes \o new.volumes)]

(***************************************************************************)
(* Environment.                                                            *)
(***************************************************************************)
\* The files an env-file path may name: path |-> lines as read by iterating
\* the file object.  A path outside the DOMAIN cannot be opened (IOError).
FileSystem ==
  "env.list" :> << <<"A", "=", "2", "\n">>, <<"#", "x", "\n">>, <<"\n">>, <<"B", "=", "3", "\n">> >>
  @@ "comment.list" :> << <<"#", "A", "=", "9", "\n">>, <<"\n">> >>
  @@ "bad.list" :> << <<"B", "=", "3", "\n">>, <<"A", "B", "\n">> >>

\* line.find(ch): 0-based index of the first occurrence, -1 if there is none
Find(line, ch) ==
  IF \E i \in 1..Len(line) : line[i] = ch
  THEN (CHOOSE i \in 1..Len(line) : line[i] = ch /\ \A j \in 1..(i - 1) : line[j] # ch) - 1
  ELSE -1

StripNewline(val) ==
  IF Len(val) > 0 /\ val[Len(val)] = "\n" THEN SubSeq(val, 1, Len(val) - 1) ELSE val

RECURSIVE ReadLines(_, _, _)
ReadLines(lines, i, env_vars) ==
  IF i > Len(lines) THEN [error |-> "none", env_vars |-> env_vars]
  ELSE LET line == lines[i]
       IN  IF Len(line) <= 1 \/ line[1] = "#"
           THEN ReadLines(lines, i + 1, env_vars)
           ELSE LET assignment_op_loc == Find(line, "=")
                IN  IF assignment_op_loc = -1
                    THEN [error |-> "BadFileException", env_vars |-> EmptyDict]
                    ELSE LET env == SubSeq(line, 1, assignment_op_loc)
                             val == StripNewline(SubSeq(line, assignment_op_loc + 2, Len(line)))
                         IN  ReadLines(lines, i + 1, Put(env_vars, env, val))

\* filename "" stands for a path that is not given (None or empty: "not filename")
ReadDictionary(filename) ==
  IF filename = "" THEN [error |-> "none", env_vars |-> EmptyDict]
  ELSE IF filename \notin DOMAIN FileSystem
       THEN [error |-> "BadFileException", env_vars |-> EmptyDict]
       ELSE ReadLines(FileSystem[filename], 1, EmptyDict)

\* for env_var_dict in container_env: for env, val in ...: current_env[env] = val
RECURSIVE ApplyContainerEnv(_, _, _)
ApplyContainerEnv(env_vars, container_env, i) ==
  IF i > Len(container_env) THEN env_vars
  ELSE ApplyContainerEnv(DictUpdate(env_vars, container_env[i]), container_env, i + 1)

\* [{'name': env, 'value': val} for env, val in env_vars.iteritems()]: the
\* order of iteritems() is not fixed by the language, so every order is possible
EnvLists(env_vars) ==
  {[i \in 1..Len(p) |-> [name |-> p[i], value |-> env_vars[p[i]]]] : p \in Perms(DOMAIN env_vars)}

\* current_env[env_val['name']] = env_val['value'] over the env list
RECURSIVE EnvOfList(_, _, _)
EnvOfList(env_list, i, current_env) ==
  IF i > Len(env_list) THEN current_env
  ELSE EnvOfList(env_list, i + 1, Put(current_env, env_list[i].name, env_list[i].value))

\* mutant: pop(env) without a default raises KeyError on a key that is absent
PopKey_NoDefault(current_env, env) ==
  IF env \in DOMAIN current_env
  THEN [error |-> "none", current_env |-> Pop(current_env, env)]
  ELSE [error |-> "KeyError", current_env |-> current_env]

\* current_env.pop(env, None): the dict without the key, and no exception
PopKey(current_env, env) == [error |-> "none", current_env |-> Pop(current_env, env)]

\* for env in remove_container_env: current_env.pop(env, None)
RECURSIVE PopAll(_, _, _)
PopAll(current_env, remove_container_env, i) ==
  IF i > Len(remove_container_env) THEN [error |-> "none", current_env |-> current_env]
  ELSE LET popped == PopKey(current_env, remove_container_env[i])
       IN  IF popped.error # "none" THEN popped
           ELSE PopAll(popped.current_env, remove_container_env, i + 1)

\* lines 548-552: the documents the write of the env field may leave
WriteEnv(m, current_env) ==
  IF current_env # EmptyDict
  THEN {SetContainer(m, Put(m.spec.containers[1], "env", env_list)) :
          env_list \in EnvLists(current_env)}
  ELSE {m}

\* the manifests _UpdateEnv may leave, and the error it raises
UpdateEnv(m, remove_container_env, container_env_file, container_env) ==
  LET current_env == EnvOfList(Get(m.spec.containers[1], "env", <<>>), 1, EmptyDict)
      popped == PopAll(current_env, remove_container_env, 1)
      read == ReadDictionary(container_env_file)
      merged == ApplyContainerEnv(DictUpdate(popped.current_env, read.env_vars),
                                  container_env, 1)
  IN  IF popped.error # "none" THEN [error |-> popped.error, manifests |-> {m}]
      ELSE IF read.error # "none" THEN [error |-> read.error, manifests |-> {m}]
           ELSE [error |-> "none", manifests |-> WriteEnv(m, merged)]

(***************************************************************************)
(* Manifest builder.                                                       *)
(***************************************************************************)
RESTART_POLICY_API ==
  "never" :> "Never" @@ "on-failure" :> "OnFailure" @@ "always" :> "Always"

\* The builder's naming loops are the updater's without the search for a free
\* name: no name is in use yet.
CreateMounts(args) ==
  NewMounts(Get(args, "container_mount_host_path", <<>>),
            Get(args, "container_mount_tmpfs", <<>>), <<>>)

\* mutant: volumeMounts is written only when there is a mount, like env
CreateContainer_OmitEmptyMounts(args, instance_name, env_list) ==
  LET c0 == [image |-> args.container_image, name |-> instance_name,
             stdin |-> args.container_stdin, tty |-> args.container_tty,
             securityContext |-> [privileged |-> args.container_privileged]]
      c1 == IF env_list # <<>> THEN Put(c0, "env", env_list) ELSE c0
  IN  IF CreateMounts(args).volume_mounts # <<>>
      THEN Put(c1, "volumeMounts", CreateMounts(args).volume_mounts) ELSE c1

CreateContainer(args, instance_name, env_list) ==
  LET c0 == [image |-> args.container_image, name |-> instance_name]
      c1 == IF "container_command" \in DOMAIN args
            THEN Put(c0, "command", <<args.container_command>>) ELSE c0
      c2 == IF "container_arg" \in DOMAIN args
            THEN Put(c1, "args", args.container_arg) ELSE c1
      c3 == Put(Put(Put(c2, "stdin", args.container_stdin), "tty", args.container_tty),
                "securityContext", [privileged |-> args.container_privileged])
      c4 == IF env_list # <<>> THEN Put(c3, "env", env_list) ELSE c3
  IN  Put(c4, "volumeMounts", CreateMounts(args).volume_mounts)

CreateContainerManifest(args, instance_name) ==
  LET read == ReadDictionary(Get(args, "container_env_file", ""))
      env_vars == ApplyContainerEnv(read.env_vars, Get(args, "container_env", <<>>), 1)
  IN  IF read.error # "none" THEN [error |-> read.error, manifests |-> {}]
      ELSE IF args.container_restart_policy \notin DOMAIN RESTART_POLICY_API
           THEN [error |-> "KeyError", manifests |-> {}]
           ELSE [error |-> "none",
                 manifests |->
                   {[spec |-> [containers |-> <<CreateContainer(args, instance_name, env_list)>>,
                               volumes |-> CreateMounts(args).volumes,
                               restartPolicy |-> RESTART_POLICY_API[args.container_restart_policy]]] :
                      env_list \in EnvLists(env_vars)}]

(***************************************************************************)
(* Manifest updater.                                                       *)
(***************************************************************************)
\* args.IsSpecified(flag): the flag was given; a flag that was not given is
\* absent from args, and reading it yields None
IsSpecified(args, flag) == flag \in DOMAIN args

\* mutant: a flag that was not given counts as False
SetIfBool_NoneIsFalse(d, args, flag, key) == Put(d, key, Get(args, flag, FALSE) = TRUE)

\* if args.<flag> is True: field = True; if args.<flag> is False: field = False
SetIfBool(d, args, flag, key) ==
  IF flag \in DOMAIN args /\ args[flag] \in BOOLEAN THEN Put(d, key, args[flag]) ELSE d

\* lines 408-427: the directives handled before the mounts
UpdateScalars(m, args) ==
  LET c0 == m.spec.containers[1]
      c1 == IF IsSpecified(args, "container_image")
            THEN Put(c0, "image", args.container_image) ELSE c0
      c2 == IF IsSpecified(args, "container_command")
            THEN Put(c1, "command", <<args.container_command>>) ELSE c1
      c3 == IF IsSpecified(args, "clear_container_command") THEN Pop(c2, "command") ELSE c2
      c4 == IF IsSpecified(args, "container_arg")
            THEN Put(c3, "args", args.container_arg) ELSE c3
      c5 == IF IsSpecified(args, "clear_container_args") THEN Pop(c4, "args") ELSE c4
      c6 == Put(c5, "securityContext",
                SetIfBool(c5.securityContext, args, "container_privileged", "privileged"))
  IN  SetContainer(m, c6)

\* mutant: the tty field follows the stdin flag
UpdateStdinTty_TtyFollowsStdin(m, args) ==
  SetContainer(m, SetIfBool(SetIfBool(m.spec.containers[1], args, "container_stdin", "stdin"),
                            args, "container_stdin", "tty"))

\* lines 437-447
UpdateStdinTty(m, args) ==
  SetContainer(m, SetIfBool(SetIfBool(m.spec.containers[1], args, "container_stdin", "stdin"),
                            args, "container_tty", "tty"))

\* itertools.chain.from_iterable(lists)
RECURSIVE Flatten(_)
Flatten(lists) == IF lists = <<>> THEN <<>> ELSE Head(lists) \o Flatten(Tail(lists))

\* mutant: metadata.value is assigned after each step, so a failure leaves the
\* document as far as it was processed
UpdateMetadata_PartialWrite(m, args) ==
  LET m1 == UpdateMounts(UpdateScalars(m, args),
                         Get(args, "remove_container_mounts", <<>>),
                         Get(args, "container_mount_host_path", <<>>),
                         Get(args, "container_mount_tmpfs", <<>>))
      env == UpdateEnv(m1, Flatten(Get(args, "remove_container_env", <<>>)),
                       Get(args, "container_env_file", ""),
                       Get(args, "container_env", <<>>))
  IN  IF env.error # "none" THEN [error |-> env.error, manifests |-> {m1}]
      ELSE IF /\ IsSpecified(args, "container_restart_policy")
              /\ args.container_restart_policy \notin DOMAIN RESTART_POLICY_API
           THEN [error |-> "KeyError",
                 manifests |-> {UpdateStdinTty(m2, args) : m2 \in env.manifests}]
           ELSE [error |-> "none",
                 manifests |->
                   {IF IsSpecified(args, "container_restart_policy")
                    THEN [m3 EXCEPT !.spec = Put(m3.spec, "restartPolicy",
                                                 RESTART_POLICY_API[args.container_restart_policy])]
                    ELSE m3 : m3 \in {UpdateStdinTty(m2, args) : m2 \in env.manifests}}]

\* the documents UpdateMetadata may store in metadata.value, and the error it
\* raises; on an error metadata.value is not assigned
UpdateMetadata(m, args) ==
  LET m1 == UpdateMounts(UpdateScalars(m, args),
                         Get(args, "remove_container_mounts", <<>>),
                         Get(args, "container_mount_host_path", <<>>),
                         Get(args, "container_mount_tmpfs", <<>>))
      env == UpdateEnv(m1, Flatten(Get(args, "remove_container_env", <<>>)),
                       Get(args, "container_env_file", ""),
                       Get(args, "container_env", <<>>))
  IN  IF env.error # "none" THEN [error |-> env.error, manifests |-> {m}]
      ELSE IF /\ IsSpecified(args, "container_restart_policy")
              /\ args.container_restart_policy \notin DOMAIN RESTART_POLICY_API
           THEN [error |-> "KeyError", manifests |-> {m}]
           ELSE [error |-> "none",
                 manifests |->
                   {IF IsSpecified(args, "container_restart_policy")
                    THEN [m3 EXCEPT !.spec = Put(m3.spec, "restartPolicy",
                                                 RESTART_POLICY_API[args.container_restart_policy])]
                    ELSE m3 : m3 \in {UpdateStdinTty(m2, args) : m2 \in env.manifests}}]

(***************************************************************************)
(* Inputs.                                                                 *)
(***************************************************************************)
InstanceName == "vm-1"

MountPaths == {"/a", "/b"}

\* host-path directives of an update: without a mode, and read-only
HostPathDirectives ==
  {"host-path" :> "/h" @@ "mount-path" :> "/a",
   "host-path" :> "/h" @@ "mount-path" :> "/b" @@ "mode" :> READ_ONLY}

\* host-path directives of a creation: also with an explicit read-write mode
CreateHostPathDirectives ==
  HostPathDirectives
  \cup {"host-path" :> "/g" @@ "mount-path" :> "/b" @@ "mode" :> READ_WRITE}

TmpfsDirectives == {"mount-path" :> "/b"}

BaseCreateArgs ==
  [container_image |-> "img", container_stdin |-> FALSE, container_tty |-> FALSE,
   container_privileged |-> FALSE, container_restart_policy |-> "always"]

\* the mount inputs of one _UpdateMounts call: the paths to remove, the
\* host-path directives and the tmpfs directives, MaxDirectives in all
MountInputs ==
  {in \in SeqsUpTo(MountPaths, MaxDirectives) \X SeqsUpTo(HostPathDirectives, MaxDirectives)
           \X SeqsUpTo(TmpfsDirectives, MaxDirectives) :
     Len(in[1]) + Len(in[2]) + Len(in[3]) <= MaxDirectives}

\* the mount directives of one creation
CreateMountInputs ==
  {in \in SeqsUpTo(CreateHostPathDirectives, MaxDirectives)
           \X SeqsUpTo(TmpfsDirectives, MaxDirectives) :
     Len(in[1]) + Len(in[2]) <= MaxDirectives}

MountCreateArgs ==
  {BaseCreateArgs @@ [container_mount_host_path |-> in[1], container_mount_tmpfs |-> in[2]] :
     in \in CreateMountInputs}

\* env names and values, character by character
EnvNames == {<<"A">>, <<"B">>}

\* the dicts of --container-env
ContainerEnvDicts ==
  {<<"A">> :> <<"1">>, <<"A">> :> <<"4">>}

ContainerEnvs == SeqsUpTo(ContainerEnvDicts, MaxContainerEnv)

\* env-file paths: not given, three files of FileSystem, and no such file
EnvFiles == {"", "env.list", "comment.list", "bad.list", "missing.list"}

RemoveEnvs == SeqsUpTo(EnvNames, MaxRemoveEnv)

EnvCreateArgs ==
  {BaseCreateArgs @@ [container_env_file |-> file, container_env |-> container_env] :
     file \in EnvFiles, container_env \in ContainerEnvs}

(***************************************************************************)
(* State machine.  manifest is the document of the instance (EmptyDict     *)
(* before it is built), error is the exception of the last call, last      *)
(* records the last call: its name, its inputs and the document before it. *)
(***************************************************************************)
Init ==
  /\ manifest = EmptyDict
  /\ last = [op |-> "none"]
  /\ error = "none"

HasManifest == manifest # EmptyDict

CreateManifest(ArgSet) ==
  /\ last.op = "none"
  /\ \E args \in ArgSet :
       LET r == CreateContainerManifest(args, InstanceName)
       IN  /\ IF r.error = "none" THEN manifest' \in r.manifests ELSE manifest' = manifest
           /\ error' = r.error
           /\ last' = [op |-> "Create", args |-> args]

UpdateMountsCall ==
  /\ HasManifest
  /\ \E in \in MountInputs :
       /\ manifest' = UpdateMounts(manifest, in[1], in[2], in[3])
       /\ Len(manifest'.spec.volumes) <= MaxMounts
       /\ error' = "none"
       /\ last' = [op |-> "UpdateMounts", pre |-> manifest,
                   remove_container_mounts |-> in[1],
                   container_mount_host_path |-> in[2],
                   container_mount_tmpfs |-> in[3]]

\* a flag with each of its values, as a set of one-flag directive sets
Opt(flag, values) == {flag :> v : v \in values}

\* what one flag of an update may say
Directives ==
  Opt("container_image", {"img2"})
  \cup Opt("container_command", {"run"})
  \cup Opt("clear_container_command", {TRUE})
  \cup Opt("container_arg", {<<"-v">>})
  \cup Opt("clear_container_args", {TRUE})
  \cup Opt("container_privileged", BOOLEAN)
  \cup Opt("container_stdin", BOOLEAN)
  \cup Opt("container_tty", BOOLEAN)
  \cup Opt("container_restart_policy", {"never", "on-failure", "sometimes"})
  \cup Opt("remove_container_mounts", SeqsUpTo(MountPaths, MaxDirectives) \ {<<>>})
  \cup Opt("container_mount_host_path", SeqsUpTo(HostPathDirectives, MaxDirectives) \ {<<>>})
  \cup Opt("container_mount_tmpfs", SeqsUpTo(TmpfsDirectives, MaxDirectives) \ {<<>>})
  \cup Opt("remove_container_env", {<<r>> : r \in RemoveEnvs \ {<<>>}}
                                   \cup {<< <<(<<"A">>)>>, <<(<<"B">>)>> >>})
  \cup Opt("container_env_file", EnvFiles \ {""})
  \cup Opt("container_env", ContainerEnvs \ {<<>>})

\* the directive sets of an update: nothing specified, or one flag
UpdateArgs == {EmptyDict} \cup Directives

\* the directive sets of a creation
CreateArgs ==
  {[container_image |-> "img", container_restart_policy |-> restart,
    container_stdin |-> flags[1], container_tty |-> flags[2], container_privileged |-> flags[3],
    container_env_file |-> file, container_env |-> container_env,
    container_mount_host_path |-> in[1], container_mount_tmpfs |-> in[2]] @@ command @@ arg :
     restart \in {"always", "never"},
     flags \in {<<FALSE, FALSE, FALSE>>, <<TRUE, TRUE, TRUE>>},
     file \in EnvFiles,
     container_env \in {<<>>, <<(<<"A">> :> <<"1">>)>>},
     in \in CreateMountInputs,
     command \in {EmptyDict} \cup Opt("container_command", {"sh"}),
     arg \in {EmptyDict} \cup Opt("container_arg", {<<"-c">>})}

\* UpdateMetadata on the document that was built
UpdateMetadataCall ==
  /\ HasManifest
  /\ last.op = "Create"
  /\ \E args \in UpdateArgs :
       LET r == UpdateMetadata(manifest, args)
       IN  /\ manifest' \in r.manifests
           /\ error' = r.error
           /\ last' = [op |-> "UpdateMetadata", pre |-> manifest, args |-> args]

CreateAny == CreateManifest(CreateArgs)

NextMeta == CreateAny \/ UpdateMetadataCall

SpecMeta == Init /\ [][NextMeta]_vars

\* the directive sets of an update with two flags (one when both are the same)
PairArgs == {d1 @@ d2 : d1 \in Directives, d2 \in Directives}

\* the directive sets of the creations that precede a two-flag update
PairCreateArgs ==
  {[container_image |-> "img", container_restart_policy |-> "always",
    container_stdin |-> flag, container_tty |-> flag, container_privileged |-> flag,
    container_env_file |-> file, container_env |-> container_env,
    container_mount_host_path |-> in[1], container_mount_tmpfs |-> in[2]] @@ command :
     flag \in BOOLEAN,
     file \in {"", "env.list"},
     container_env \in {<<>>, <<(<<"A">> :> <<"1">>)>>},
     in \in {<< <<>>, <<>> >>,
             << <<("host-path" :> "/h" @@ "mount-path" :> "/a")>>,
                <<("mount-path" :> "/b")>> >>},
     command \in {EmptyDict, [container_command |-> "sh", container_arg |-> <<"-c">>]}}

\* UpdateMetadata with two flags on the document that was built
UpdatePairCall ==
  /\ HasManifest
  /\ last.op = "Create"
  /\ \E args \in PairArgs :
       LET r == UpdateMetadata(manifest, args)
       IN  /\ manifest' \in r.manifests
           /\ error' = r.error
           /\ last' = [op |-> "UpdateMetadata", pre |-> manifest, args |-> args]

CreateForPair == CreateManifest(PairCreateArgs)

NextPair == CreateForPair \/ UpdatePairCall

SpecPair == Init /\ [][NextPair]_vars

UpdateEnvCall ==
  /\ HasManifest
  /\ \E remove_container_env \in RemoveEnvs, container_env_file \in EnvFiles,
        container_env \in ContainerEnvs :
       LET r == UpdateEnv(manifest, remove_container_env, container_env_file, container_env)
       IN  /\ manifest' \in r.manifests
           /\ error' = r.error
           /\ last' = [op |-> "UpdateEnv", pre |-> manifest,
                       remove_container_env |-> remove_container_env,
                       container_env_file |-> container_env_file,
                       container_env |-> container_env]

CreateWithEnv == CreateManifest(EnvCreateArgs)

NextEnv == CreateWithEnv \/ UpdateEnvCall

SpecEnv == Init /\ [][NextEnv]_vars

CreateWithMounts == CreateManifest(MountCreateArgs)

NextMounts == CreateWithMounts \/ UpdateMountsCall

SpecMounts == Init /\ [][NextMounts]_vars

(***************************************************************************)
(* Updating a declaration that was not built here: UpdateMetadata parses   *)
(* whatever document the instance metadata holds.  Such a document may hold *)
(* a volume that no mount references and two mounts of one volume.         *)
(***************************************************************************)
LoadedVolumes ==
  [i \in 1..3 |-> [name |-> Str(i - 1), hostPath |-> [path |-> "/h"]]]

LoadedMounts ==
  {[name |-> "0", mountPath |-> "/b"], [name |-> "1", mountPath |-> "/a"],
   [name |-> "2", mountPath |-> "/a"], [name |-> "2", mountPath |-> "/b"]}

LoadedManifests ==
  {[spec |-> [containers |-> <<[image |-> "img", name |-> InstanceName, stdin |-> FALSE,
                                tty |-> FALSE, securityContext |-> [privileged |-> FALSE],
                                volumeMounts |-> mounts]>>,
              volumes |-> LoadedVolumes,
              restartPolicy |-> "Always"]] :
     mounts \in SeqsUpTo(LoadedMounts, MaxLoadedMounts)}

InitLoaded ==
  /\ manifest \in LoadedManifests
  /\ last = [op |-> "Load"]
  /\ error = "none"

CleanupMountsCall ==
  /\ HasManifest
  /\ \E in \in MountInputs :
       /\ manifest' = CleanupMounts(manifest, in[1], in[2], in[3])
       /\ error' = "none"
       /\ last' = [op |-> "CleanupMounts", pre |-> manifest,
                   remove_container_mounts |-> in[1],
                   container_mount_host_path |-> in[2],
                   container_mount_tmpfs |-> in[3]]

NextLoaded == CleanupMountsCall

SpecLoaded == InitLoaded /\ [][NextLoaded]_vars

\* the most lines of an env-file
MaxLines == 3

\* lines without their terminator
LineBodies ==
  {<<>>, <<"A">>, <<"#">>, <<"#", "A">>, <<"=">>, <<"A", "=">>, <<"A", "=", "1">>,
   <<"A", "=", "2", "=">>, <<"B", "=", "1">>, <<"A", "A">>}

\* the lines iterating a file may yield: terminated, or not empty and without
\* terminator
Lines == {body \o <<"\n">> : body \in LineBodies} \cup (LineBodies \ {<<>>})

\* the contents of a file: only the last line may lack its terminator
FileContents ==
  {lines \in SeqsUpTo(Lines, MaxLines) :
     \A i \in 1..(Len(lines) - 1) : lines[i][Len(lines[i])] = "\n"}

\* _ReadDictionary on a path of the file system, on no path and on a path that
\* cannot be opened; one read per command
ReadDictionaryCall ==
  /\ last.op = "none"
  /\ \E filename \in EnvFiles :
       LET r == ReadDictionary(filename)
       IN  /\ error' = r.error
           /\ last' = [op |-> "ReadDictionary", filename |-> filename,
                       env_vars |-> r.env_vars]
           /\ UNCHANGED manifest

\* _ReadDictionary on a file of the given contents
ReadFileCall ==
  /\ last.op = "none"
  /\ \E lines \in FileContents :
       LET r == ReadLines(lines, 1, EmptyDict)
       IN  /\ error' = r.error
           /\ last' = [op |-> "ReadFile", lines |-> lines, env_vars |-> r.env_vars]
           /\ UNCHANGED manifest

NextRead == ReadDictionaryCall \/ ReadFileCall

SpecRead == Init /\ [][NextRead]_vars

(***************************************************************************)
(* Image selection.  An image name and a family are sequences of           *)
(* characters; a creationTimestamp is <<local time, UTC offset>> in hours. *)
(***************************************************************************)
COS_MAJOR_RELEASE_PREFIX == <<"c", "o", "s", "-", "s", "t", "a", "b", "l", "e", "-">>

COS_MAJOR_RELEASE == COS_MAJOR_RELEASE_PREFIX \o <<"5", "5">>

\* str.startswith
StartsWith(s, prefix) ==
  Len(s) >= Len(prefix) /\ SubSeq(s, 1, Len(prefix)) = prefix

IsDigit(c) == \E d \in 0..9 : Digit(d) = c

\* int() of a sequence of digits
RECURSIVE ToInt(_)
ToInt(digits) ==
  IF digits = <<>> THEN 0
  ELSE 10 * ToInt(SubSeq(digits, 1, Len(digits) - 1))
       + (CHOOSE d \in 0..9 : Digit(d) = digits[Len(digits)])

\* times.ParseDateTime: the instant a timestamp denotes
ParseDateTime(creationTimestamp) == creationTimestamp[1] - creationTimestamp[2]

\* the number of digits of s from position i on
RECURSIVE DigitRun(_, _)
DigitRun(s, i) ==
  IF i <= Len(s) /\ IsDigit(s[i]) THEN 1 + DigitRun(s, i + 1) ELSE 0

\* name_re_template.format(family) without its groups: cos-<family>-
NamePrefix(family) == <<"c", "o", "s", "-">> \o family \o <<"-">>

\* re.match(r'cos-<family>-(\d+)-.*', name): the text of group 1 when the name
\* matches, <<>> when it does not
MatchGroup(family, name) ==
  LET start == Len(NamePrefix(family)) + 1
      run == DigitRun(name, start)
  IN  IF /\ StartsWith(name, NamePrefix(family))
         /\ run >= 1
         /\ start + run <= Len(name)
         /\ name[start + run] = "-"
      THEN SubSeq(name, start, start + run - 1)
      ELSE <<>>

Matches(family, name) == MatchGroup(family, name) # <<>>

\* CreateComparisonKey: (version, timestamp)
CreateComparisonKey(family, image) ==
  <<ToInt(MatchGroup(family, image.name)), ParseDateTime(image.creationTimestamp)>>

\* mutant: only the first components are compared
KeyLess_FirstOnly(k1, k2) == k1[1] < k2[1]

\* the order of Python tuples of two numbers
KeyLess(k1, k2) == k1[1] < k2[1] \/ (k1[1] = k2[1] /\ k1[2] < k2[2])

\* the key of _SelectNewestCosImage, as a tuple
TimestampKey(image) == <<0, ParseDateTime(image.creationTimestamp)>>

\* list.insert of x behind the last item whose key is not greater; an item
\* is an image with its key
RECURSIVE Insert(_, _)
Insert(sorted, x) ==
  IF sorted # <<>> /\ KeyLess(x.key, sorted[Len(sorted)].key)
  THEN Append(Insert(SubSeq(sorted, 1, Len(sorted) - 1), x), sorted[Len(sorted)])
  ELSE Append(sorted, x)

\* sorted(images, key=...) on images with their keys: stable, ascending
RECURSIVE Sorted(_)
Sorted(items) ==
  IF items = <<>> THEN <<>>
  ELSE Insert(Sorted(SubSeq(items, 1, Len(items) - 1)), items[Len(items)])

\* mutant: the names are not filtered
SelectNewestCosImage_Unfiltered(images) ==
  LET cos_images == Sorted([n \in 1..Len(images) |->
                              [key |-> TimestampKey(images[n]), image |-> images[n]]])
  IN  IF cos_images = <<>> THEN [error |-> "NoCosImageException", selfLink |-> <<>>]
      ELSE [error |-> "none", selfLink |-> cos_images[Len(cos_images)].image.selfLink]

\* lines 187-194; the result is [error, selfLink]
SelectNewestCosImage(images) ==
  LET matching == SelectSeq(images, LAMBDA image : StartsWith(image.name, COS_MAJOR_RELEASE))
      cos_images == Sorted([n \in 1..Len(matching) |->
                              [key |-> TimestampKey(matching[n]), image |-> matching[n]]])
  IN  IF cos_images = <<>> THEN [error |-> "NoCosImageException", selfLink |-> <<>>]
      ELSE [error |-> "none", selfLink |-> cos_images[Len(cos_images)].image.selfLink]

requested_version == 62

image_families ==
  <<(<<"s", "t", "a", "b", "l", "e">>), (<<"b", "e", "t", "a">>), (<<"d", "e", "v">>)>>

\* lines 255-271, from the i-th family on; the result is [error, selfLink]
RECURSIVE ScanFamilies(_, _)
ScanFamilies(images, i) ==
  IF i > Len(image_families) THEN [error |-> "NoCosImageException", selfLink |-> <<>>]
  ELSE LET family == image_families[i]
           matching == SelectSeq(images, LAMBDA image : Matches(family, image.name))
           cos_images ==
             Sorted([n \in 1..Len(matching) |->
                       [key |-> CreateComparisonKey(family, matching[n]),
                        image |-> matching[n]]])
       IN  IF /\ cos_images # <<>>
              /\ cos_images[Len(cos_images)].key[1] >= requested_version
           THEN [error |-> "none", selfLink |-> cos_images[Len(cos_images)].image.selfLink]
           ELSE ScanFamilies(images, i + 1)

\* lines 246-271 on the images the request returned
ExpandKonletCosImageFlag(images) == ScanFamilies(images, 1)

\* the most images a list request returns
MaxImages == 3

stable == image_families[1]

beta == image_families[2]

dev == image_families[3]

\* cos-<family>-<rest>
ImageName(family, rest) == <<"c", "o", "s", "-">> \o family \o <<"-">> \o rest

ImageNames ==
  {ImageName(stable, <<"6", "2", "-", "1">>), ImageName(stable, <<"6", "2", "-", "2">>),
   ImageName(stable, <<"5", "5", "-", "1">>), ImageName(stable, <<"5", "5", "1">>),
   ImageName(beta, <<"6", "3", "-", "1">>), ImageName(beta, <<"6", "1", "-", "1">>),
   ImageName(dev, <<"6", "4", "-", "1">>)}

\* creation timestamps: 01:00Z, 02:00Z and 02:00+02:00
Timestamps == {<<1, 0>>, <<2, 0>>, <<2, 2>>}

\* the images of the project; the self-link of an image ends in its name
Images ==
  {[name |-> name, creationTimestamp |-> ts, selfLink |-> <<"images/">> \o name] :
     name \in ImageNames, ts \in Timestamps}

\* what the list request may return: images of different names
ImageLists ==
  {images \in SeqsUpTo(Images, MaxImages) :
     \A i, j \in 1..Len(images) : images[i].name = images[j].name => i = j}

\* one image expansion per command
ExpandKonletCosImageFlagCall ==
  /\ last.op = "none"
  /\ \E images \in ImageLists :
       LET r == ExpandKonletCosImageFlag(images)
       IN  /\ error' = r.error
           /\ last' = [op |-> "ExpandKonletCosImageFlag", images |-> images,
                       selfLink |-> r.selfLink]
           /\ UNCHANGED manifest

ExpandCosImageFlagCall ==
  /\ last.op = "none"
  /\ \E images \in ImageLists :
       LET r == SelectNewestCosImage(images)
       IN  /\ error' = r.error
           /\ last' = [op |-> "ExpandCosImageFlag", images |-> images,
                       selfLink |-> r.selfLink]
           /\ UNCHANGED manifest

NextImages == ExpandKonletCosImageFlagCall \/ ExpandCosImageFlagCall

SpecImages == Init /\ [][NextImages]_vars

(***************************************************************************)
(* Vocabulary of the properties.                                           *)
(***************************************************************************)
Container(m) == m.spec.containers[1]

MountsOf(m) == Container(m).volumeMounts

VolumesOf(m) == m.spec.volumes

NameSet(items) == {items[i].name : i \in 1..Len(items)}

AfterUpdateMounts == last.op = "UpdateMounts"

\* the directives of the last _UpdateMounts call, host-path first
NewDirectives == last.container_mount_host_path \o last.container_mount_tmpfs

\* the set of mount paths the last call removes
RemovalSet ==
  Range(last.remove_container_mounts)
  \cup {last.container_mount_host_path[i]["mount-path"] :
          i \in 1..Len(last.container_mount_host_path)}
  \cup {last.container_mount_tmpfs[i]["mount-path"] :
          i \in 1..Len(last.container_mount_tmpfs)}

KeptMounts == SelectSeq(MountsOf(last.pre), LAMBDA mt : mt.mountPath \notin RemovalSet)

GoneMounts == SelectSeq(MountsOf(last.pre), LAMBDA mt : mt.mountPath \in RemovalSet)

Survives(volume) == volume.name \in NameSet(KeptMounts) \/ volume.name \notin NameSet(GoneMounts)

SurvivingVolumes == SelectSeq(VolumesOf(last.pre), Survives)

\* the smallest n > above for which str(n) is not in names
NextFree(names, above) ==
  CHOOSE n \in (above + 1)..(above + 1 + Cardinality(names)) :
    /\ Str(n) \notin names
    /\ \A k \in (above + 1)..(n - 1) : Str(k) \in names

RECURSIVE FreeNames(_, _, _)
FreeNames(names, above, count) ==
  IF count = 0 THEN <<>>
  ELSE LET n == NextFree(names, above)
       IN  <<Str(n)>> \o FreeNames(names, n, count - 1)

\* C1: every entry of containers[0].volumeMounts has the name of some entry
\* of spec.volumes, in the built manifest and after every _UpdateMounts call.
C1_ReferentialIntegrity ==
  HasManifest =>
    \A i \in 1..Len(MountsOf(manifest)) :
      \E j \in 1..Len(VolumesOf(manifest)) :
        MountsOf(manifest)[i].name = VolumesOf(manifest)[j].name

\* an update that removed a mount, kept a mount and added one
C1_Witness ==
  /\ AfterUpdateMounts
  /\ GoneMounts # <<>>
  /\ KeptMounts # <<>>
  /\ NewDirectives # <<>>
  /\ Len(MountsOf(manifest)) >= 2

\* C2: no two entries of spec.volumes have the same name, in the built
\* manifest and after every _UpdateMounts call.
C2_UniqueVolumeNames ==
  HasManifest =>
    \A i, j \in 1..Len(VolumesOf(manifest)) :
      i # j => VolumesOf(manifest)[i].name # VolumesOf(manifest)[j].name

\* an update that added two volumes next to a surviving one
C2_Witness ==
  /\ AfterUpdateMounts
  /\ SurvivingVolumes # <<>>
  /\ Len(NewDirectives) = 2
  /\ Len(VolumesOf(manifest)) >= 3

\* C4: the new mounts, host-path directives first and then tmpfs directives,
\* get the smallest non-negative integers (as decimal strings) that are not
\* names of surviving volumes, in increasing order; the new volumes and mounts
\* are appended after the surviving ones.
C4_NameAllocation ==
  AfterUpdateMounts =>
    LET names == FreeNames(NameSet(SurvivingVolumes), -1, Len(NewDirectives))
        nv == Len(SurvivingVolumes)
        nm == Len(KeptMounts)
        nh == Len(last.container_mount_host_path)
    IN  /\ Len(VolumesOf(manifest)) = nv + Len(NewDirectives)
        /\ Len(MountsOf(manifest)) = nm + Len(NewDirectives)
        /\ SubSeq(VolumesOf(manifest), 1, nv) = SurvivingVolumes
        /\ SubSeq(MountsOf(manifest), 1, nm) = KeptMounts
        /\ \A i \in 1..Len(NewDirectives) :
             /\ VolumesOf(manifest)[nv + i].name = names[i]
             /\ MountsOf(manifest)[nm + i].name = names[i]
             /\ MountsOf(manifest)[nm + i].mountPath = NewDirectives[i]["mount-path"]
             /\ (i <= nh) = ("hostPath" \in DOMAIN VolumesOf(manifest)[nv + i])
             /\ (i > nh) = ("emptyDir" \in DOMAIN VolumesOf(manifest)[nv + i])

\* volumes "0" and "2" survive, the call collects volume "1" and its one new
\* host-path mount gets the name "1" again
C4_Witness ==
  /\ AfterUpdateMounts
  /\ NameSet(SurvivingVolumes) = {"0", "2"}
  /\ "1" \in NameSet(VolumesOf(last.pre))
  /\ Len(last.container_mount_host_path) = 1
  /\ last.container_mount_tmpfs = <<>>
  /\ VolumesOf(manifest)[3].name = "1"

\* C5: the paths removed are the explicitly removed paths and the mount paths
\* of the new directives; the existing mounts at other paths are kept, unchanged
\* and in order, and the only mounts at a new directive's path are the new ones.
C5_ImplicitReplacement ==
  AfterUpdateMounts =>
    LET nm == Len(KeptMounts)
        post == MountsOf(manifest)
    IN  /\ Len(post) = nm + Len(NewDirectives)
        /\ SubSeq(post, 1, nm) = KeptMounts
        /\ \A i \in 1..Len(post) :
             post[i].mountPath \in RemovalSet =>
               /\ i > nm
               /\ post[i].mountPath = NewDirectives[i - nm]["mount-path"]
        /\ \A i \in 1..Len(MountsOf(last.pre)) :
             MountsOf(last.pre)[i].mountPath \in Range(MountPathsOf(NewDirectives)) =>
               \A j \in 1..nm : post[j] # MountsOf(last.pre)[i]

\* a new directive at the path of an existing mount, no explicit removal, and
\* another existing mount that is kept
C5_Witness ==
  /\ AfterUpdateMounts
  /\ last.remove_container_mounts = <<>>
  /\ GoneMounts # <<>>
  /\ KeptMounts # <<>>

\* C3: after _CleanupMounts an existing volume is still in spec.volumes if and
\* only if its name is referenced by a kept mount or by no removed mount, and
\* the surviving volumes keep their relative order.
C3_OrphanCollection ==
  last.op = "CleanupMounts" =>
    /\ \A i \in 1..Len(VolumesOf(last.pre)) :
         InList(VolumesOf(last.pre)[i], VolumesOf(manifest)) <=> Survives(VolumesOf(last.pre)[i])
    /\ VolumesOf(manifest) = SelectSeq(VolumesOf(last.pre), Survives)

\* volume "0" had no mount and stays, volume "1" lost its only mount and is
\* deleted, volume "2" is shared by a removed and a kept mount and stays
C3_Witness ==
  /\ last.op = "CleanupMounts"
  /\ NameSet(VolumesOf(last.pre)) = {"0", "1", "2"}
  /\ "0" \notin NameSet(MountsOf(last.pre))
  /\ "1" \in NameSet(GoneMounts) /\ "1" \notin NameSet(KeptMounts)
  /\ "2" \in NameSet(GoneMounts) /\ "2" \in NameSet(KeptMounts)
  /\ NamesOf(VolumesOf(manifest)) = <<"0", "2">>

\* the env mapping a document holds: name |-> value of its env entries
EnvOf(m) ==
  LET env == IF "env" \in DOMAIN Container(m) THEN Container(m).env ELSE <<>>
  IN  [k \in NameSet(env) |->
         env[CHOOSE i \in 1..Len(env) : env[i].name = k /\ \A j \in (i + 1)..Len(env) : env[j].name # k].value]

\* the mapping the last explicit assignment of each key gives
ExplicitEnv(container_env) ==
  [k \in UNION {DOMAIN container_env[i] : i \in 1..Len(container_env)} |->
     container_env[CHOOSE i \in 1..Len(container_env) :
                     /\ k \in DOMAIN container_env[i]
                     /\ \A j \in (i + 1)..Len(container_env) : k \notin DOMAIN container_env[j]][k]]

\* current mapping minus the removed keys, overwritten by the file mapping,
\* overwritten by the explicit assignments
ExpectedEnv ==
  LET current == EnvOf(last.pre)
      file == ReadDictionary(last.container_env_file).env_vars
      explicit == ExplicitEnv(last.container_env)
      keys == ((DOMAIN current \ Range(last.remove_container_env)) \cup DOMAIN file)
              \cup DOMAIN explicit
  IN  [k \in keys |-> IF k \in DOMAIN explicit THEN explicit[k]
                      ELSE IF k \in DOMAIN file THEN file[k] ELSE current[k]]

AfterUpdateEnv == last.op = "UpdateEnv" /\ error = "none"

\* C6: the env mapping _UpdateEnv leaves is the current mapping with the removed
\* keys deleted, then overwritten by the env-file mapping, then overwritten by
\* the explicit assignments, later ones overriding earlier ones.
C6_EnvPrecedence ==
  AfterUpdateEnv => EnvOf(manifest) = ExpectedEnv

\* C6 where the merged mapping is not empty
C6_EnvPrecedenceNonEmpty ==
  (AfterUpdateEnv /\ ExpectedEnv # EmptyDict) => EnvOf(manifest) = ExpectedEnv

\* {A:1}, file {A:2, B:3}, explicit {A:4}, A also removed: result {A:4, B:3}
C6_Witness ==
  /\ AfterUpdateEnv
  /\ EnvOf(last.pre) = (<<"A">> :> <<"1">>)
  /\ last.container_env_file = "env.list"
  /\ last.container_env = <<(<<"A">> :> <<"4">>)>>
  /\ last.remove_container_env = << <<"A">> >>
  /\ EnvOf(manifest) = (<<"A">> :> <<"4">> @@ <<"B">> :> <<"3">>)

\* C7: when the env mapping computed by an update is empty, the container of
\* the resulting manifest has no env field.
C7_EmptyEnvOmitted ==
  (AfterUpdateEnv /\ ExpectedEnv = EmptyDict) => "env" \notin DOMAIN Container(manifest)

\* C8 as stated: a document without volumes or mounts, built or updated, omits
\* the volumes and volumeMounts fields rather than holding empty collections.
C8_EmptyMountsOmitted ==
  HasManifest =>
    /\ Get(Container(manifest), "volumeMounts", <<>>) = <<>> =>
         "volumeMounts" \notin DOMAIN Container(manifest)
    /\ Get(manifest.spec, "volumes", <<>>) = <<>> => "volumes" \notin DOMAIN manifest.spec

\* C8 as amended: the built document and the document after _UpdateMounts
\* always hold the volumes and volumeMounts fields; when nothing is mounted
\* they hold empty sequences, in the creation path and the update path alike.
C8_EmptyMountsKept ==
  HasManifest =>
    /\ "volumeMounts" \in DOMAIN Container(manifest)
    /\ "volumes" \in DOMAIN manifest.spec
    /\ (last.op = "Create" /\ last.args.container_mount_host_path = <<>>
          /\ last.args.container_mount_tmpfs = <<>>) =>
         (MountsOf(manifest) = <<>> /\ VolumesOf(manifest) = <<>>)
    /\ (AfterUpdateMounts /\ KeptMounts = <<>> /\ SurvivingVolumes = <<>>
          /\ NewDirectives = <<>>) =>
         (MountsOf(manifest) = <<>> /\ VolumesOf(manifest) = <<>>)

\* an update that removed the last mount and volume
C8_Witness ==
  /\ AfterUpdateMounts
  /\ MountsOf(last.pre) # <<>>
  /\ VolumesOf(last.pre) # <<>>
  /\ MountsOf(manifest) = <<>>
  /\ VolumesOf(manifest) = <<>>

AfterUpdateMetadata == last.op = "UpdateMetadata"

\* the document without the env field of its container
WithoutEnv(m) == SetContainer(m, Pop(Container(m), "env"))

\* C9: UpdateMetadata with an empty directive set on a built manifest yields a
\* manifest equal to the built one, env compared as a name-to-value mapping.
C9_RoundTrip ==
  (AfterUpdateMetadata /\ last.args = EmptyDict) =>
    /\ error = "none"
    /\ WithoutEnv(manifest) = WithoutEnv(last.pre)
    /\ EnvOf(manifest) = EnvOf(last.pre)
    /\ ("env" \in DOMAIN Container(manifest)) = ("env" \in DOMAIN Container(last.pre))

\* an empty update of a manifest built with a command, args, set flags, two
\* env variables and two mounts
C9_Witness ==
  /\ AfterUpdateMetadata
  /\ last.args = EmptyDict
  /\ "command" \in DOMAIN Container(last.pre)
  /\ "args" \in DOMAIN Container(last.pre)
  /\ Container(last.pre).stdin
  /\ Cardinality(DOMAIN EnvOf(last.pre)) = 2
  /\ Len(MountsOf(last.pre)) = 2
  /\ manifest.spec.restartPolicy = "Never"

\* the only directive of the last update is the given flag
OnlyDirective(flag) == AfterUpdateMetadata /\ DOMAIN last.args = {flag}

\* C10: an update whose only directive removes mount paths that no existing
\* mount has leaves volumeMounts and volumes unchanged; an update whose only
\* directive removes env keys that are not in the current env leaves the env
\* mapping unchanged and raises no error.
C10_RemoveAbsentNoOp ==
  /\ (/\ OnlyDirective("remove_container_mounts")
      /\ \A i \in 1..Len(MountsOf(last.pre)) :
           MountsOf(last.pre)[i].mountPath \notin Range(last.args.remove_container_mounts)) =>
       /\ error = "none"
       /\ MountsOf(manifest) = MountsOf(last.pre)
       /\ VolumesOf(manifest) = VolumesOf(last.pre)
  /\ (/\ OnlyDirective("remove_container_env")
      /\ Range(Flatten(last.args.remove_container_env)) \cap DOMAIN EnvOf(last.pre) = {}) =>
       /\ error = "none"
       /\ EnvOf(manifest) = EnvOf(last.pre)

\* the removal of an env key that is absent, from a manifest with another key
C10_Witness ==
  /\ OnlyDirective("remove_container_env")
  /\ DOMAIN EnvOf(last.pre) = {<<"A">>}
  /\ Flatten(last.args.remove_container_env) = << <<"B">> >>
  /\ Len(MountsOf(last.pre)) = 2

\* the removal of a mount path that is absent, from a manifest with a mount
C10_WitnessMounts ==
  /\ OnlyDirective("remove_container_mounts")
  /\ {MountsOf(last.pre)[i].mountPath : i \in 1..Len(MountsOf(last.pre))} = {"/a"}
  /\ last.args.remove_container_mounts = <<"/b">>

\* none of the given flags is in the directive set of the last update
Unspecified(flags) == DOMAIN last.args \cap flags = {}

\* an optional field of a dictionary: <<value>> when present, <<>> when absent
Field(d, key) == IF key \in DOMAIN d THEN <<d[key]>> ELSE <<>>

MountFlags == {"remove_container_mounts", "container_mount_host_path", "container_mount_tmpfs"}

EnvFlags == {"remove_container_env", "container_env_file", "container_env"}

\* the parts of a document that no directive addresses
Untouched(m) ==
  <<[k \in DOMAIN m \ {"spec"} |-> m[k]],
    DOMAIN m.spec, Len(m.spec.containers),
    [k \in DOMAIN Container(m) \ {"image", "command", "args", "securityContext", "stdin",
                                  "tty", "env", "volumeMounts"} |-> Container(m)[k]],
    [k \in DOMAIN Container(m).securityContext \ {"privileged"} |->
       Container(m).securityContext[k]]>>

\* C11: after UpdateMetadata on a built manifest, every field whose directive
\* category (image, command / clear-command, args / clear-args, privileged,
\* stdin, tty, restart policy, mounts, env) is not specified equals its value
\* before the call, whatever the other directives are (env compared as a
\* name-to-value mapping); when the call succeeds a specified scalar directive
\* has overwritten its field and a clear directive has removed command or args.
C11_Frame ==
  AfterUpdateMetadata =>
    LET pre == Container(last.pre)
        post == Container(manifest)
        args == last.args
    IN  /\ Untouched(manifest) = Untouched(last.pre)
        /\ Unspecified({"container_image"}) => post.image = pre.image
        /\ Unspecified({"container_command", "clear_container_command"}) =>
             Field(post, "command") = Field(pre, "command")
        /\ Unspecified({"container_arg", "clear_container_args"}) =>
             Field(post, "args") = Field(pre, "args")
        /\ Unspecified({"container_privileged"}) =>
             post.securityContext = pre.securityContext
        /\ Unspecified({"container_stdin"}) => post.stdin = pre.stdin
        /\ Unspecified({"container_tty"}) => post.tty = pre.tty
        /\ Unspecified({"container_restart_policy"}) =>
             manifest.spec.restartPolicy = last.pre.spec.restartPolicy
        /\ Unspecified(MountFlags) =>
             /\ MountsOf(manifest) = MountsOf(last.pre)
             /\ VolumesOf(manifest) = VolumesOf(last.pre)
        /\ Unspecified(EnvFlags) =>
             /\ EnvOf(manifest) = EnvOf(last.pre)
             /\ Field(post, "env") = <<>> <=> Field(pre, "env") = <<>>
        /\ error = "none" =>
             /\ "container_image" \in DOMAIN args => post.image = args.container_image
             /\ "clear_container_command" \in DOMAIN args => Field(post, "command") = <<>>
             /\ ("container_command" \in DOMAIN args
                   /\ "clear_container_command" \notin DOMAIN args) =>
                  Field(post, "command") = << <<args.container_command>> >>
             /\ "clear_container_args" \in DOMAIN args => Field(post, "args") = <<>>
             /\ ("container_arg" \in DOMAIN args
                   /\ "clear_container_args" \notin DOMAIN args) =>
                  Field(post, "args") = <<args.container_arg>>
             /\ "container_privileged" \in DOMAIN args =>
                  post.securityContext.privileged = args.container_privileged
             /\ "container_stdin" \in DOMAIN args => post.stdin = args.container_stdin
             /\ "container_tty" \in DOMAIN args => post.tty = args.container_tty
             /\ "container_restart_policy" \in DOMAIN args =>
                  manifest.spec.restartPolicy =
                    RESTART_POLICY_API[args.container_restart_policy]

\* a successful update that sets stdin and replaces a mount, on a manifest with
\* a command, args, tty set, two env variables and two mounts
C11_Witness ==
  /\ AfterUpdateMetadata
  /\ error = "none"
  /\ DOMAIN last.args = {"container_stdin", "container_mount_tmpfs"}
  /\ last.args.container_stdin = FALSE
  /\ Container(last.pre).tty
  /\ Container(manifest).tty
  /\ ~Container(manifest).stdin
  /\ "command" \in DOMAIN Container(manifest)
  /\ "args" \in DOMAIN Container(manifest)
  /\ Cardinality(DOMAIN EnvOf(manifest)) = 2
  /\ MountsOf(manifest) # MountsOf(last.pre)

\* the last update failed with the given error
UpdateFailed(err) == AfterUpdateMetadata /\ error = err

\* C12: when UpdateMetadata fails (malformed env-file line, unreadable
\* env-file, unrecognized restart-policy token) the stored document equals the
\* document before the call, even when image, mount or other directives of the
\* same call precede the failing step.
C12_NoPartialWrite ==
  (AfterUpdateMetadata /\ error # "none") => manifest = last.pre

\* a failed update whose env-file has a malformed line and whose tmpfs directive
\* was processed before the file was read
C12_Witness ==
  /\ UpdateFailed("BadFileException")
  /\ DOMAIN last.args = {"container_mount_tmpfs", "container_env_file"}
  /\ last.args.container_env_file = "bad.list"
  /\ MountsOf(last.pre) # <<>>
  /\ manifest = last.pre

\* a failed update whose restart-policy token is unrecognized and whose image
\* directive was processed before the lookup
C12_WitnessRestartPolicy ==
  /\ UpdateFailed("KeyError")
  /\ DOMAIN last.args = {"container_image", "container_restart_policy"}
  /\ last.args.container_image # Container(last.pre).image
  /\ manifest = last.pre

\* a failed update whose env-file cannot be opened and whose image directive
\* was processed before the file was read
C12_WitnessUnreadable ==
  /\ UpdateFailed("BadFileException")
  /\ DOMAIN last.args = {"container_image", "container_env_file"}
  /\ last.args.container_env_file = "missing.list"
  /\ manifest = last.pre

AfterExpandKonlet == last.op = "ExpandKonletCosImageFlag"

\* the positions of the listed images whose name is cos-<family>-<version>-...
Candidates(family) ==
  {i \in 1..Len(last.images) : Matches(family, last.images[i].name)}

VersionOf(family, i) == ToInt(MatchGroup(family, last.images[i].name))

InstantOf(i) == ParseDateTime(last.images[i].creationTimestamp)

\* the candidates of a family that no other candidate exceeds by version, or
\* by creation time at the same version
Greatest(family) ==
  {i \in Candidates(family) :
     \A j \in Candidates(family) :
       \/ VersionOf(family, j) < VersionOf(family, i)
       \/ VersionOf(family, j) = VersionOf(family, i) /\ InstantOf(j) <= InstantOf(i)}

\* the family has a candidate and its greatest candidate has version >= 62
Qualifies(family) == \E i \in Greatest(family) : VersionOf(family, i) >= 62

\* C13: ExpandKonletCosImageFlag tries stable, beta, dev in this order; the
\* candidate of a family is the image named cos-<family>-<version>-... that is
\* greatest by (version, creation time); the result is the self-link of the
\* candidate of the first family whose candidate has version >= 62, whatever
\* the later families hold, and NoCosImageException when no family has one.
C13_FamilyFallback ==
  AfterExpandKonlet =>
    IF \E k \in 1..Len(image_families) : Qualifies(image_families[k])
    THEN LET k == CHOOSE n \in 1..Len(image_families) :
                    /\ Qualifies(image_families[n])
                    /\ \A l \in 1..(n - 1) : ~Qualifies(image_families[l])
         IN  /\ error = "none"
             /\ \E i \in Greatest(image_families[k]) :
                  /\ last.selfLink = last.images[i].selfLink
                  /\ VersionOf(image_families[k], i) >= 62
    ELSE error = "NoCosImageException"

\* beta with version 63 is listed first, stable has only version 55, dev has
\* version 64: the beta image is returned
C13_Witness ==
  /\ AfterExpandKonlet
  /\ error = "none"
  /\ Len(last.images) = 3
  /\ last.images[1].name = ImageName(beta, <<"6", "3", "-", "1">>)
  /\ last.images[1].creationTimestamp = <<1, 0>>
  /\ last.images[2].name = ImageName(stable, <<"5", "5", "-", "1">>)
  /\ last.images[3].name = ImageName(dev, <<"6", "4", "-", "1">>)
  /\ last.selfLink = last.images[1].selfLink

\* two stable images of version 62, the one created later listed first
C13_WitnessTimestamp ==
  /\ AfterExpandKonlet
  /\ Len(last.images) = 2
  /\ Candidates(stable) = {1, 2}
  /\ VersionOf(stable, 1) = 62
  /\ VersionOf(stable, 2) = 62
  /\ InstantOf(1) > InstantOf(2)
  /\ last.selfLink = last.images[1].selfLink

\* no family has a candidate of version 62 or more
C13_WitnessNone ==
  /\ AfterExpandKonlet
  /\ error = "NoCosImageException"
  /\ Candidates(stable) # {}
  /\ Candidates(beta) # {}

AfterExpandCos == last.op = "ExpandCosImageFlag"

\* the positions of the listed images whose name starts with cos-stable-55
PinnedImages ==
  {i \in 1..Len(last.images) : StartsWith(last.images[i].name, COS_MAJOR_RELEASE)}

\* C14: _SelectNewestCosImage returns the self-link of an image whose name
\* starts with the pinned prefix and whose creation time no other such image
\* exceeds, whatever the other images are; it raises NoCosImageException when
\* no name starts with the prefix.
C14_NewestImage ==
  AfterExpandCos =>
    IF PinnedImages = {} THEN error = "NoCosImageException"
    ELSE /\ error = "none"
         /\ \E i \in PinnedImages :
              /\ last.selfLink = last.images[i].selfLink
              /\ \A j \in PinnedImages : InstantOf(j) <= InstantOf(i)

\* two pinned images, the later one listed first, and a newer image of another
\* release listed last
C14_Witness ==
  /\ AfterExpandCos
  /\ Len(last.images) = 3
  /\ PinnedImages = {1, 2}
  /\ InstantOf(1) > InstantOf(2)
  /\ InstantOf(3) > InstantOf(1)
  /\ last.selfLink = last.images[1].selfLink

\* images are listed and none is pinned
C14_WitnessNone ==
  /\ AfterExpandCos
  /\ last.images # <<>>
  /\ error = "NoCosImageException"

AfterCreate == last.op = "Create" /\ error = "none"

\* C15: _CreateContainerManifest with h host-path directives and t tmpfs
\* directives produces h+t volumes and h+t mounts; the i-th host-path directive
\* (from 0) gets the name str(i), a hostPath volume and a mount that is
\* readOnly exactly when its mode is read-only; the j-th tmpfs directive gets
\* the name str(h+j), a memory-backed emptyDir volume and a mount.
C15_BuilderNaming ==
  AfterCreate =>
    LET host == last.args.container_mount_host_path
        tmpfs == last.args.container_mount_tmpfs
        h == Len(host)
        t == Len(tmpfs)
    IN  /\ Len(VolumesOf(manifest)) = h + t
        /\ Len(MountsOf(manifest)) = h + t
        /\ \A i \in 0..(h - 1) :
             /\ VolumesOf(manifest)[i + 1] =
                  [name |-> Str(i), hostPath |-> [path |-> host[i + 1]["host-path"]]]
             /\ MountsOf(manifest)[i + 1] =
                  [name |-> Str(i), mountPath |-> host[i + 1]["mount-path"],
                   readOnly |-> ("mode" \in DOMAIN host[i + 1]
                                   /\ host[i + 1]["mode"] = READ_ONLY)]
        /\ \A j \in 0..(t - 1) :
             /\ VolumesOf(manifest)[h + j + 1] =
                  [name |-> Str(h + j), emptyDir |-> [medium |-> "Memory"]]
             /\ MountsOf(manifest)[h + j + 1] =
                  [name |-> Str(h + j), mountPath |-> tmpfs[j + 1]["mount-path"]]

\* a manifest built from a read-only host-path directive and a tmpfs directive
C15_Witness ==
  /\ AfterCreate
  /\ Len(last.args.container_mount_host_path) = 1
  /\ Len(last.args.container_mount_tmpfs) = 1
  /\ MountsOf(manifest)[1].readOnly
  /\ VolumesOf(manifest)[2].name = "1"
  /\ "emptyDir" \in DOMAIN VolumesOf(manifest)[2]

\* a manifest built from two host-path directives, with and without a mode
C15_WitnessModes ==
  /\ AfterCreate
  /\ Len(last.args.container_mount_host_path) = 2
  /\ "mode" \notin DOMAIN last.args.container_mount_host_path[1]
  /\ Get(last.args.container_mount_host_path[2], "mode", READ_ONLY) = READ_WRITE
  /\ ~MountsOf(manifest)[1].readOnly
  /\ ~MountsOf(manifest)[2].readOnly
  /\ MountsOf(manifest)[2].name = "1"

\* the number of items of the given name
CountOf(items, name) == Cardinality({i \in 1..Len(items) : items[i].name = name})

\* C17: in the built manifest and after every sequence of _UpdateMounts calls,
\* volumeMounts and volumes have the same length, every volume has the name of
\* exactly one mount and every mount has the name of exactly one volume.
C17_NoOrphans ==
  HasManifest =>
    /\ Len(MountsOf(manifest)) = Len(VolumesOf(manifest))
    /\ \A i \in 1..Len(VolumesOf(manifest)) :
         CountOf(MountsOf(manifest), VolumesOf(manifest)[i].name) = 1
    /\ \A i \in 1..Len(MountsOf(manifest)) :
         CountOf(VolumesOf(manifest), MountsOf(manifest)[i].name) = 1

\* a second update in a row that removed a mount and its volume and kept
\* another
C17_Witness ==
  /\ AfterUpdateMounts
  /\ Len(VolumesOf(last.pre)) >= 2
  /\ NameSet(VolumesOf(last.pre)) # {"0", "1"}
  /\ GoneMounts # <<>>
  /\ KeptMounts # <<>>
  /\ Len(VolumesOf(manifest)) < Len(VolumesOf(last.pre))

AfterReadFile == last.op = "ReadFile"

\* a line that is empty or starts with "#"
EmptyOrComment(line) == StripNewline(line) = <<>> \/ line[1] = "#"

\* a line the file loop passes over: of one character at most, or starting
\* with "#"
PassedOver(line) == Len(line) <= 1 \/ line[1] = "#"

KeyOf(line) == SubSeq(line, 1, Find(line, "="))

ValueOf(line) == StripNewline(SubSeq(line, Find(line, "=") + 2, Len(line)))

\* the mapping of the lines that are not skipped, a later line replacing an
\* earlier one of the same key
MappingOf(lines, Skipped(_)) ==
  LET defs == {i \in 1..Len(lines) : ~Skipped(lines[i])}
  IN  [k \in {KeyOf(lines[i]) : i \in defs} |->
         ValueOf(lines[CHOOSE i \in defs :
                         /\ KeyOf(lines[i]) = k
                         /\ \A j \in defs : j > i => KeyOf(lines[j]) # k])]

\* what a read yields when exactly the lines of Skipped are skipped
ReadsAs(Skipped(_)) ==
  IF \E i \in 1..Len(last.lines) : ~Skipped(last.lines[i]) /\ Find(last.lines[i], "=") = -1
  THEN error = "BadFileException"
  ELSE error = "none" /\ last.env_vars = MappingOf(last.lines, Skipped)

\* a read without a file path
NoPathRead == last.op = "ReadDictionary" /\ last.filename = ""

\* C16: _ReadDictionary skips a line only if it is empty or starts with "#";
\* any other line without "=" fails the read with a syntax error, a
\* one-character last line without terminator included; any other line gives
\* the text before its first "=" as key and the text after it, without the
\* line terminator, as value; no file path gives the empty mapping.
C16_EnvFileReader ==
  /\ AfterReadFile => ReadsAs(EmptyOrComment)
  /\ NoPathRead => (error = "none" /\ last.env_vars = EmptyDict)

\* the read skips the lines of one character at most and the lines starting
\* with "#", and is as C16 says otherwise
C16_ReaderPassesOver ==
  /\ AfterReadFile => ReadsAs(PassedOver)
  /\ NoPathRead => (error = "none" /\ last.env_vars = EmptyDict)

\* a file whose last line is one character without terminator is read without
\* error
C16_OneCharacterLine ==
  /\ AfterReadFile
  /\ Len(last.lines) = 2
  /\ last.lines[1] = <<"B", "=", "1", "\n">>
  /\ last.lines[2] = <<"A">>
  /\ error = "none"
  /\ last.env_vars = (<<"B">> :> <<"1">>)

====
